---- MODULE Spec2Model ----
(***************************************************************************)
(* Model of app/main.py: the Streamlit insurance-premium estimator.        *)
(*                                                                         *)
(* One server process holds the st.cache_resource cache of load_artifacts. *)
(* Every script run executes the module top to bottom: load_artifacts()    *)
(* (through the cache), the module-level initialisation of `model` and     *)
(* `scaler`, then main().  A script run is started by a page load, by the  *)
(* form's submit button, or by a rerun of the page without a submission.   *)
(*                                                                         *)
(* Numbers: bmi is held in tenths (30.0 is 300); the scaler's outputs are  *)
(* held in thousandths; a prediction is a whole number of dollars.         *)
(***************************************************************************)
EXTENDS Integers, Sequences, FiniteSets

VARIABLES
    disk,         \* the two artifact files: Absent, Corrupt or a content version
    cache,        \* st.cache_resource entry of load_artifacts
    diskAtLoad,   \* the files as load_artifacts' body saw them (history)
    reads,        \* executions of load_artifacts' body (history)
    model,        \* module global `model` of the last script run
    scaler,       \* module global `scaler` of the last script run
    trigger,      \* what started the last script run
    ui,           \* what the last script run rendered in the result column
    inp,          \* the RawInput the last script run's submission captured
    run,          \* locals of main()'s submitted branch in the last script run
    banner,       \* the risk banner of the last script run
    resultShown,  \* a Result was rendered in the current page session (history)
    remembered    \* one earlier submission, kept for comparison (history)

vars == <<disk, cache, diskAtLoad, reads, model, scaler, trigger, ui, inp, run,
          banner, resultShown, remembered>>

----------------------------------------------------------------------------
(* Bounds and the sampled inputs *)

\* Distinct valid contents a model file / a scaler file can have: 1..NumVersions.
NumVersions == 2

\* A python None.
None == 0
\* A file that os.path.exists reports missing.
Absent == 0
\* A file that exists and makes joblib.load raise.
Corrupt == -1
\* A module global whose assignment never executed.
Unbound == -2

Versions == 1..NumVersions
FileStates == {Absent, Corrupt} \cup Versions

\* Slider 18..100, default 35.
Ages == {35, 64}
\* number_input 10.0..60.0 step 0.1, default 30.0; in tenths.
Bmis == {185, 300}
\* number_input 0..5, default 0.
ChildrenCounts == {0}
Sexes == {"Male", "Female"}
Regions == {"Southeast", "Northwest", "Southwest", "Northeast"}

RawInputs == [age : Ages, bmi : Bmis, sex : Sexes, children : ChildrenCounts,
              smoker : BOOLEAN, region : Regions]

\* The inputs whose resubmission is followed.
ProbeInputs == [age : Ages, bmi : {300}, sex : Sexes, children : {0},
                smoker : BOOLEAN, region : {"Southeast"}]

\* The widgets' default values.
DefaultInput == [age |-> 35, bmi |-> 300, sex |-> "Male", children |-> 0,
                 smoker |-> FALSE, region |-> "Southeast"]

----------------------------------------------------------------------------
(* The artifacts: what a loaded scaler and a loaded model compute *)

\* StandardScaler.mean_ and .scale_ of scaler content v, per column
\* [age, bmi (tenths), children, cluster].
ScalerMean(v) == <<38 + v, 305 + v, 1, 1>>
ScalerScale(v) == <<13 + v, 60 + v, 1, 1 + v>>

\* scaler.transform(input_raw)[0]: (x - mean_) / scale_ per column, in thousandths.
Transform(s, quad) ==
    [i \in 1..4 |-> ((quad[i] - ScalerMean(s)[i]) * 1000) \div ScalerScale(s)[i]]

\* The trees of model content v, each a one-split tree over the feature vector.
Forest(v) ==
    IF v = 1 THEN << [f |-> 5, thr |-> 0, lo |-> 9999, hi |-> 30001] >>
    ELSE IF v = 2 THEN << [f |-> 1, thr |-> 0, lo |-> 10000, hi |-> 30000],
                          [f |-> 2, thr |-> 0, lo |-> 10000, hi |-> 30000] >>
    ELSE << [f |-> 9, thr |-> 0, lo |-> 10000 - v, hi |-> 30000 + v] >>

TreeValue(t, vec) == IF vec[t.f] <= t.thr THEN t.lo ELSE t.hi

RECURSIVE SumTrees(_, _, _)
SumTrees(trees, vec, n) ==
    IF n = 0 THEN 0 ELSE TreeValue(trees[n], vec) + SumTrees(trees, vec, n - 1)

\* model.predict(final_vec)[0]: the mean of the trees' values.
Predict(m, vec) == SumTrees(Forest(m), vec, Len(Forest(m))) \div Len(Forest(m))

\* Truth value of a module global in `if model and scaler`: None is false, a
\* loaded estimator is true (a fitted forest has at least one tree, a scaler
\* defines no length).
Truthy(x) == x # None

----------------------------------------------------------------------------
(* load_artifacts *)

EmptyDict == [k \in {} |-> None]

\* The python value None as a return value, and a dict as a return value.
ReturnNone == [none |-> TRUE, dict |-> EmptyDict]
ReturnDict(d) == [none |-> FALSE, dict |-> d]

\* The body of load_artifacts run against the files d: any joblib.load that
\* raises makes it return None, otherwise the dict of the files that exist.
LoadBodyKeepPartial(d) ==
    IF d["model"] = Corrupt THEN ReturnDict(EmptyDict)
    ELSE ReturnDict([k \in {x \in {"model", "scaler"} : d[x] \in Versions} |-> d[k]])

LoadBody(d) ==
    IF d["model"] = Corrupt \/ d["scaler"] = Corrupt
    THEN ReturnNone
    ELSE ReturnDict([k \in {x \in {"model", "scaler"} : d[x] # Absent} |-> d[k]])

\* st.cache_resource: whether the call is served from the cache.
CacheHitNever(c) == FALSE

CacheHitOnlyTruthy(c) == c.loaded /\ ~c.value.none /\ DOMAIN c.value.dict # {}

CacheHit(c) == c.loaded

\* `if assets`: None and the empty dict are false.
AssetsTruthy(a) == ~a.none /\ DOMAIN a.dict # {}

\* assets[key] raises KeyError: assets is a non-empty dict without the key.
RaisesKeyErrorNever(a, key) == FALSE

RaisesKeyError(a, key) == AssetsTruthy(a) /\ key \notin DOMAIN a.dict

\* The value of `assets[key] if assets else None` when it does not raise.
SubscriptOrNone(a, key) ==
    IF AssetsTruthy(a) /\ key \in DOMAIN a.dict THEN a.dict[key] ELSE None

\* Module-level initialisation of `model` and `scaler`, in that order; the first
\* KeyError ends the script run and leaves the later global unassigned.
ModuleInit(a) ==
    IF RaisesKeyError(a, "model")
    THEN [raised |-> TRUE, model |-> Unbound, scaler |-> Unbound]
    ELSE IF RaisesKeyError(a, "scaler")
    THEN [raised |-> TRUE, model |-> SubscriptOrNone(a, "model"), scaler |-> Unbound]
    ELSE [raised |-> FALSE, model |-> SubscriptOrNone(a, "model"),
          scaler |-> SubscriptOrNone(a, "scaler")]

----------------------------------------------------------------------------
(* main(): the submitted branch *)

\* 1. Feature encoding and 2. cluster assignment.
EncodeClusterFromSex(i) ==
    [sex_val |-> IF i.sex = "Male" THEN 0 ELSE 1,
     smoker_val |-> IF i.smoker THEN 1 ELSE 0,
     r_nw |-> IF i.region = "Northwest" THEN 1 ELSE 0,
     r_se |-> IF i.region = "Southeast" THEN 1 ELSE 0,
     r_sw |-> IF i.region = "Southwest" THEN 1 ELSE 0,
     cluster |-> IF i.sex = "Female" THEN 2 ELSE 1]

Encode(i) ==
    [sex_val |-> IF i.sex = "Male" THEN 0 ELSE 1,
     smoker_val |-> IF i.smoker THEN 1 ELSE 0,
     r_nw |-> IF i.region = "Northwest" THEN 1 ELSE 0,
     r_se |-> IF i.region = "Southeast" THEN 1 ELSE 0,
     r_sw |-> IF i.region = "Southwest" THEN 1 ELSE 0,
     cluster |-> IF (IF i.smoker THEN 1 ELSE 0) = 1 THEN 2 ELSE 1]

\* 3. The raw vector handed to the scaler.
InputRaw(i, e) == <<i.age, i.bmi, i.children, e.cluster>>

\* 4. Vector assembly.
AssembleBmiFirst(e, sc) ==
    <<sc[2], e.sex_val, sc[1], sc[3], e.smoker_val, e.r_nw, e.r_se, e.r_sw, sc[4]>>

Assemble(e, sc) ==
    <<sc[1], e.sex_val, sc[2], sc[3], e.smoker_val, e.r_nw, e.r_se, e.r_sw, sc[4]>>

NoEncoding == [sex_val |-> 0, smoker_val |-> 0, r_nw |-> 0, r_se |-> 0, r_sw |-> 0,
               cluster |-> 0]

\* The locals of a run in which the inference pipeline did not execute.
NotRun(p) == [ran |-> FALSE, transformCalls |-> 0, predictCalls |-> 0,
              enc |-> NoEncoding, input_raw |-> <<>>, input_scaled |-> <<>>,
              final_vec |-> <<>>, prediction |-> p]

\* prediction = 0.0
Fallback == 0

\* The inference pipeline of the submitted branch, with the fallback.
PipelineMeanFallback(m, s, i) ==
    IF Truthy(m) /\ Truthy(s)
    THEN LET e == Encode(i)
             raw == InputRaw(i, e)
             sc == Transform(s, raw)
             vec == Assemble(e, sc)
         IN [ran |-> TRUE, transformCalls |-> 1, predictCalls |-> 1, enc |-> e,
             input_raw |-> raw, input_scaled |-> sc, final_vec |-> vec,
             prediction |-> Predict(m, vec)]
    ELSE NotRun(13270)

Pipeline(m, s, i) ==
    IF Truthy(m) /\ Truthy(s)
    THEN LET e == Encode(i)
             raw == InputRaw(i, e)
             sc == Transform(s, raw)
             vec == Assemble(e, sc)
         IN [ran |-> TRUE, transformCalls |-> 1, predictCalls |-> 1, enc |-> e,
             input_raw |-> raw, input_scaled |-> sc, final_vec |-> vec,
             prediction |-> Predict(m, vec)]
    ELSE NotRun(Fallback)

HighThreshold == 30000
LowThreshold == 10000

\* The threshold alerts.
RiskBannerInclusive(p) ==
    IF p >= HighThreshold THEN "High"
    ELSE IF p <= LowThreshold THEN "Low"
    ELSE "Standard"

RiskBanner(p) ==
    IF p > HighThreshold THEN "High"
    ELSE IF p < LowThreshold THEN "Low"
    ELSE "Standard"

\* What the result column shows.
RenderedInverted(submitted) == IF submitted THEN "Idle" ELSE "Result"

Rendered(submitted) == IF submitted THEN "Result" ELSE "Idle"

----------------------------------------------------------------------------
(* Script runs *)

NoLocals == NotRun(Fallback)

NothingRemembered == [set |-> FALSE, between |-> FALSE, inp |-> DefaultInput,
                      final_vec |-> <<>>, prediction |-> Fallback]

Locals == {NotRun(Fallback)} \cup
          {Pipeline(m, s, i) : m \in Versions, s \in Versions, i \in RawInputs}

\* The values the state takes.
TypeOK ==
    /\ disk \in [{"model", "scaler"} -> FileStates]
    /\ cache.loaded \in BOOLEAN
    /\ cache.value \in {ReturnNone} \cup {LoadBody(d) : d \in [{"model", "scaler"} -> FileStates]}
    /\ diskAtLoad \in [{"model", "scaler"} -> FileStates]
    /\ reads \in {0, 1}
    /\ model \in {None, Unbound} \cup Versions
    /\ scaler \in {None, Unbound} \cup Versions
    /\ trigger \in {"none", "load", "submit", "rerun"}
    /\ ui \in {"Blank", "Idle", "Result", "Exception"}
    /\ inp \in RawInputs
    /\ run \in Locals
    /\ banner \in {"none", "High", "Low", "Standard"}
    /\ resultShown \in BOOLEAN
    /\ remembered.set \in BOOLEAN
    /\ remembered.between \in BOOLEAN
    /\ remembered.inp \in RawInputs

Init ==
    /\ disk \in [{"model", "scaler"} -> FileStates]
    /\ cache = [loaded |-> FALSE, value |-> ReturnNone]
    /\ diskAtLoad = [k \in {"model", "scaler"} |-> Absent]
    /\ reads = 0
    /\ model = Unbound
    /\ scaler = Unbound
    /\ trigger = "none"
    /\ ui = "Blank"
    /\ inp = DefaultInput
    /\ run = NoLocals
    /\ banner = "none"
    /\ resultShown = FALSE
    /\ remembered = NothingRemembered

\* One execution of the script: load_artifacts() through the cache, the module
\* globals, then main() with the submit button's value.
ScriptRun(trig, submitted, i) ==
    LET hit == CacheHit(cache)
        assets == IF hit THEN cache.value ELSE LoadBody(disk)
        g == ModuleInit(assets)
        loc == IF ~g.raised /\ submitted THEN Pipeline(g.model, g.scaler, i)
               ELSE NoLocals
        shows == IF g.raised THEN "Exception" ELSE Rendered(submitted)
    IN /\ cache' = [loaded |-> TRUE, value |-> assets]
       /\ diskAtLoad' = IF hit THEN diskAtLoad ELSE disk
       /\ reads' = IF hit THEN reads ELSE reads + 1
       /\ model' = g.model
       /\ scaler' = g.scaler
       /\ trigger' = trig
       /\ ui' = shows
       /\ inp' = i
       /\ run' = loc
       /\ banner' = IF ~g.raised /\ submitted THEN RiskBanner(loc.prediction)
                    ELSE "none"
       /\ resultShown' = ((trig # "load" /\ resultShown) \/ shows = "Result")
       /\ UNCHANGED disk

\* A browser opens (or reloads) the page: a new session, nothing submitted.
PageLoad ==
    /\ ScriptRun("load", FALSE, DefaultInput)
    /\ UNCHANGED remembered

\* The form's submit button is pressed: the form is on the page.
Submit ==
    /\ ui \in {"Idle", "Result"}
    /\ \E i \in RawInputs : ScriptRun("submit", TRUE, i)
    /\ UNCHANGED remembered

\* The page's script runs again in the same session without a submission.
Rerun ==
    /\ ui # "Blank"
    /\ ScriptRun("rerun", FALSE, DefaultInput)
    /\ UNCHANGED remembered

\* The environment creates, removes, damages or replaces an artifact file.
DiskChange ==
    /\ \E k \in {"model", "scaler"}, v \in FileStates :
          /\ v # disk[k]
          /\ disk' = [disk EXCEPT ![k] = v]
    /\ UNCHANGED <<cache, diskAtLoad, reads, model, scaler, trigger, ui, inp, run,
                   banner, resultShown, remembered>>

Next == PageLoad \/ Submit \/ Rerun \/ DiskChange

Spec == Init /\ [][Next]_vars

\* Submit, following the submissions of the probe inputs: the submission is
\* either remembered or compared with the one remembered earlier.
SubmitProbe ==
    /\ ui \in {"Idle", "Result"}
    /\ \E i \in ProbeInputs :
          /\ ScriptRun("submit", TRUE, i)
          /\ \/ remembered' = [set |-> TRUE, between |-> FALSE, inp |-> i,
                               final_vec |-> run'.final_vec,
                               prediction |-> run'.prediction]
             \/ /\ remembered.set
                /\ remembered' = [remembered EXCEPT
                                    !.between = @ \/ i # remembered.inp]

NextIdem == PageLoad \/ SubmitProbe \/ Rerun \/ DiskChange

SpecIdem == Init /\ [][NextIdem]_vars

----------------------------------------------------------------------------
(* Properties *)

Keys == {"model", "scaler"}
Available(x) == x \in Versions

\* C1 (as claimed): after a start-up in which no load raised, whatever files
\* were missing, the run renders the form and each missing artifact is None.
C1_MissingFileIsNotAnError ==
    (cache.loaded /\ \A k \in Keys : diskAtLoad[k] # Corrupt)
        => /\ ui \in {"Idle", "Result"}
           /\ diskAtLoad["model"] = Absent => model = None
           /\ diskAtLoad["scaler"] = Absent => scaler = None

\* C2: a submission made while the model or the scaler is unavailable calls
\* neither transform nor predict, predicts the fallback 0 and renders a Result
\* with the Low Risk banner.
C2_UnavailableFallsBackToLowRisk ==
    (trigger = "submit" /\ (~Available(model) \/ ~Available(scaler)))
        => /\ run.transformCalls = 0
           /\ run.predictCalls = 0
           /\ run.prediction = 0
           /\ ui = "Result"
           /\ banner = "Low"

C2_Witness ==
    /\ trigger = "submit"
    /\ model = None
    /\ scaler = None
    /\ ui = "Result"
    /\ banner = "Low"
    /\ diskAtLoad["model"] = Absent
    /\ diskAtLoad["scaler"] = Absent

\* C3: when the load of either file raised, both globals are None, also when
\* the model file had loaded before the scaler file raised.
C3_LoadFailureDiscardsBoth ==
    (cache.loaded /\ \E k \in Keys : diskAtLoad[k] = Corrupt)
        => /\ cache.value.none
           /\ model = None
           /\ scaler = None

C3_Witness ==
    /\ cache.loaded
    /\ Available(diskAtLoad["model"])
    /\ diskAtLoad["scaler"] = Corrupt
    /\ model = None
    /\ scaler = None
    /\ ui = "Result"

\* C4: with both artifacts available, the vector given to predict has 9
\* elements, [age_s, sex, bmi_s, children_s, smoker, nw, se, sw, cluster_s],
\* the scaled ones being the scaler's output on [age, bmi, children, cluster].
C4_VectorOrder ==
    (trigger = "submit" /\ Available(model) /\ Available(scaler))
        => LET quad == <<inp.age, inp.bmi, inp.children, IF inp.smoker THEN 2 ELSE 1>>
               s == Transform(scaler, quad)
           IN /\ run.ran
              /\ run.predictCalls = 1
              /\ run.input_raw = quad
              /\ Len(run.final_vec) = 9
              /\ run.final_vec[1] = s[1]
              /\ run.final_vec[2] = (IF inp.sex = "Male" THEN 0 ELSE 1)
              /\ run.final_vec[3] = s[2]
              /\ run.final_vec[4] = s[3]
              /\ run.final_vec[5] = (IF inp.smoker THEN 1 ELSE 0)
              /\ run.final_vec[6] = (IF inp.region = "Northwest" THEN 1 ELSE 0)
              /\ run.final_vec[7] = (IF inp.region = "Southeast" THEN 1 ELSE 0)
              /\ run.final_vec[8] = (IF inp.region = "Southwest" THEN 1 ELSE 0)
              /\ run.final_vec[9] = s[4]
              /\ run.prediction = Predict(model, run.final_vec)

C4_Witness ==
    /\ trigger = "submit"
    /\ run.ran
    /\ inp.smoker
    /\ inp.sex = "Female"
    /\ inp.region = "Southwest"
    /\ inp.age = 64
    /\ run.final_vec[1] # run.final_vec[3]
    /\ run.final_vec[8] = 1

\* C5: sex_bit is 0 iff Male, smoker_bit is 1 iff smoker, cluster is 2 iff
\* smoker else 1, and the region bits have exactly the region's bit set, none
\* for Northeast; scenario 1 encodes to 0, 0, 1, (0, 1, 0).
C5_Encoding ==
    (trigger = "submit" /\ run.ran)
        => LET e == run.enc
           IN /\ e.sex_val \in {0, 1} /\ (e.sex_val = 0 <=> inp.sex = "Male")
              /\ e.smoker_val \in {0, 1} /\ (e.smoker_val = 1 <=> inp.smoker)
              /\ e.cluster \in {1, 2} /\ (e.cluster = 2 <=> inp.smoker)
              /\ {e.r_nw, e.r_se, e.r_sw} \subseteq {0, 1}
              /\ e.r_nw = 1 <=> inp.region = "Northwest"
              /\ e.r_se = 1 <=> inp.region = "Southeast"
              /\ e.r_sw = 1 <=> inp.region = "Southwest"
              /\ e.r_nw + e.r_se + e.r_sw = (IF inp.region = "Northeast" THEN 0 ELSE 1)
              /\ inp = [age |-> 35, bmi |-> 300, sex |-> "Male", children |-> 0,
                        smoker |-> FALSE, region |-> "Southeast"]
                   => /\ e.sex_val = 0 /\ e.smoker_val = 0 /\ e.cluster = 1
                      /\ <<e.r_nw, e.r_se, e.r_sw>> = <<0, 1, 0>>

C5_Witness ==
    /\ trigger = "submit"
    /\ run.ran
    /\ inp = [age |-> 35, bmi |-> 300, sex |-> "Male", children |-> 0,
              smoker |-> FALSE, region |-> "Southeast"]
    /\ run.enc.r_se = 1
    /\ run.enc.cluster = 1

\* C6: every rendered prediction has exactly one banner: High iff above 30000,
\* Low iff below 10000, Standard otherwise (10000 and 30000 included).
C6_Thresholds ==
    ui = "Result"
        => /\ banner \in {"High", "Low", "Standard"}
           /\ banner = "High" <=> run.prediction > 30000
           /\ banner = "Low" <=> run.prediction < 10000
           /\ banner = "Standard" <=> (run.prediction >= 10000 /\ run.prediction <= 30000)

C6_Witness ==
    /\ ui = "Result"
    /\ run.ran
    /\ run.prediction = 30000
    /\ banner = "Standard"

\* C7 (as claimed): once a Result was rendered in a page session, every later
\* run of that session renders the Result.
C7_NeverRevertsToIdle == resultShown => ui = "Result"

\* C7 (amended): a run renders the Result exactly when a submission started
\* it and the Idle placeholder when a page load or a rerun did; nothing else is
\* rendered by main(), and a rerun after a Result renders Idle again.
C7_RenderedBySubmission ==
    /\ ui \in {"Blank", "Idle", "Result", "Exception"}
    /\ ui = "Blank" <=> trigger = "none"
    /\ ui = "Result" <=> trigger = "submit"
    /\ ui = "Idle" => trigger \in {"load", "rerun"}
    /\ (trigger \in {"load", "rerun"} /\ ui # "Exception") => ui = "Idle"

C7_Witness ==
    /\ resultShown
    /\ trigger = "rerun"
    /\ ui = "Idle"

\* C8: the body of load_artifacts runs at most once; after it ran, no step
\* changes the cached value or the availability of the globals, whatever
\* happens to the files.
C8_LoadedOnce ==
    [][/\ reads' <= 1
       /\ cache.loaded => /\ cache' = cache
                          /\ reads' = reads
                          /\ model' = model
                          /\ scaler' = scaler]_vars

C8_Witness ==
    /\ reads = 1
    /\ cache.value.none
    /\ Available(disk["model"])
    /\ Available(disk["scaler"])
    /\ trigger = "submit"
    /\ model = None
    /\ banner = "Low"

\* C9: a RawInput submitted again, with other submissions in between, yields
\* the same feature vector and the same prediction as before.
C9_Idempotent ==
    (trigger = "submit" /\ remembered.set /\ remembered.inp = inp)
        => /\ remembered.final_vec = run.final_vec
           /\ remembered.prediction = run.prediction

C9_Witness ==
    /\ trigger = "submit"
    /\ remembered.set
    /\ remembered.between
    /\ remembered.inp = inp
    /\ run.ran
    /\ disk # diskAtLoad

\* C10: whenever main() ran, model and scaler are both available or both None.
C10_BothOrNeither ==
    ui \in {"Idle", "Result"}
        => \/ model = None /\ scaler = None
           \/ Available(model) /\ Available(scaler)

C10_Witness ==
    /\ ui = "Result"
    /\ Available(model)
    /\ Available(scaler)
    /\ run.ran
    /\ disk["scaler"] = Absent

====
